---- MODULE Spec2Model ----
(***************************************************************************)
(* The Miniflux service hooks of fluent-reader                              *)
(* (src/scripts/models/services/miniflux.ts): the paginated entry fetcher   *)
(* fetchEntries, the two sync operations built on it (fetchItems,           *)
(* syncItems) and the mutation commands, run against a remote entry store;  *)
(* and the two catalog operations, authenticate and updateSources.          *)
(***************************************************************************)
EXTENDS Integers, Sequences, FiniteSets, TLC

(* ------------------------------ bounds -------------------------------- *)

\* Spec, the whole engine: ids the remote assigns, and the largest overall cap.
MaxId == 2
MaxCap == 2
\* SpecWalk, the page walks against a changing remote.
WalkMaxId == 4
WalkMaxCap == 3
\* SpecPages, the page walks over a fixed dataset: its largest size and cap.
PagesMaxId == 6
PagesMaxCap == 5
\* SpecCatalog: the categories and the feeds the remote catalog may hold.
MaxCategories == 2
MaxFeeds == 2
\* Largest page size handed to fetchEntries.  The hooks always pass the
\* default of 125; fetchEntries itself takes any size, and the walk only
\* compares it with totals and counts, so small sizes stand for it.
MaxPageSize == 2
\* Most source ids handed to one markAllRead call.
MaxSids == 1

PageSizes == 1..MaxPageSize

(* --------------------- optional values (x | undefined) ----------------- *)

\* undefined / null, and a defined value
None == <<>>
Some(x) == <<x>>

\* JavaScript truthiness of an optional number: undefined and 0 are falsy
Truthy(opt) == opt # None /\ opt[1] # 0

\* opt ?? d
OrElse(opt, d) == IF opt = None THEN d ELSE opt[1]

(* ------------------------------ state ---------------------------------- *)

VARIABLES
    remote,           \* the remote entries: id -> [status, starred]
    serial,           \* the last id the remote assigned
    configs,          \* MinifluxConfigs: [lastId, fetchLimit]
    op,               \* the last operation called: none, fetchItems, syncItems, command,
                      \* authenticate, updateSources
    pc,               \* its position: idle, loop (in do..while), done (fetchEntries
                      \* returned), categories / feeds (updateSources awaits that call)
    queryParams,      \* the URLSearchParams object: name -> value
    fetchNew,         \* fetchEntries parameter
    fetchLimit,       \* fetchEntries parameter (page size)
    items,            \* fetchEntries accumulator
    entriesResponse,  \* the last decoded page, or null
    continueId,       \* the before-id cursor, or undefined
    unreadItems,      \* syncItems: result of the first walk, or undefined
    requests,         \* page requests fetchEntries issued in this call
    failed,           \* whether an iteration of this call threw
    returned,         \* what the last call resolved to, or undefined
    lastIdBefore,     \* configs.lastId when the last call was made
    trace,            \* whether the mutation commands' calls are recorded
    called,           \* the last mutation command called, with its arguments
    sent,             \* the requests it issued: slot -> request
    response,         \* what came back for each: slot -> transport outcome
    raised,           \* whether it rejected (threw to its caller)
    importGroups,     \* configs.importGroups
    catalog,          \* the remote catalog: [categories, feeds: feed id -> category]
    groups,           \* the source groups of the application state, by name
    groupsBefore,     \* groups when updateSources was last called
    answer,           \* what the last call of authenticate / updateSources got back
    thrown,           \* the error the last authenticate / updateSources threw, or none
    ruled,            \* the sids of the sources that have rules
    ruleLog           \* the last fetchItems' mapping of entries of sources with rules:
                      \* what the remote reported, what the rules left, the command
                      \* thunks created, the requests sent

remoteVars == <<remote, serial>>
walkVars == <<pc, queryParams, fetchNew, fetchLimit, items, entriesResponse,
              continueId, unreadItems, requests, failed>>
callVars == <<op, returned, lastIdBefore>>
cmdVars == <<called, sent, response, raised>>
catalogVars == <<importGroups, catalog, groups, groupsBefore, answer, thrown>>
ruleVars == <<ruled, ruleLog>>
vars == <<remote, serial, configs, op, pc, queryParams, fetchNew, fetchLimit,
          items, entriesResponse, continueId, unreadItems, requests, failed,
          returned, lastIdBefore,
          trace, called, sent, response, raised,
          importGroups, catalog, groups, groupsBefore, answer, thrown,
          ruled, ruleLog>>

(* ------------------------- URLSearchParams ----------------------------- *)

ParamsSet(q, k, v) == [x \in DOMAIN q \cup {k} |-> IF x = k THEN v ELSE q[x]]
ParamsDelete(q, k) == [x \in DOMAIN q \ {k} |-> q[x]]
\* append on a name that is not yet present adds it
ParamsAppend(q, k, v) == ParamsSet(q, k, v)
ParamsHas(q, k) == k \in DOMAIN q

(* ------------------------------ remote --------------------------------- *)

\* the feed an entry belongs to
FeedOf(id) == 1 + (id % 2)

\* the Entry object the remote returns for id
EntryOf(id) == [id |-> id, status |-> remote[id].status,
                starred |-> remote[id].starred, feed |-> FeedOf(id)]

\* the entries a GET /v1/entries query selects
Matching(q) ==
    {id \in DOMAIN remote :
        /\ ParamsHas(q, "status") => remote[id].status = q["status"]
        /\ ParamsHas(q, "starred") => remote[id].starred
        /\ ParamsHas(q, "before_entry_id") => id < q["before_entry_id"]
        /\ ParamsHas(q, "after_entry_id") => id > q["after_entry_id"]}

SetMax(S) == CHOOSE m \in S : \A x \in S : x <= m

\* the ids of S in descending order (order=id, direction=desc), at most n of them
TopDesc(S, n) ==
    [i \in 1..(IF Cardinality(S) < n THEN Cardinality(S) ELSE n) |->
        CHOOSE id \in S : Cardinality({x \in S : x > id}) = i - 1]

\* the decoded body of GET /v1/entries?q : total counts all matches, entries is one page
EntriesOf(q) ==
    [total |-> Cardinality(Matching(q)),
     entries |-> [i \in DOMAIN TopDesc(Matching(q), q["limit"]) |->
                    EntryOf(TopDesc(Matching(q), q["limit"])[i])]]

RemoteAdd(bound) ==
    /\ serial < bound
    /\ serial' = serial + 1
    /\ remote' = [id \in DOMAIN remote \cup {serial + 1} |->
                    IF id = serial + 1 THEN [status |-> "unread", starred |-> FALSE]
                    ELSE remote[id]]
    /\ UNCHANGED <<configs, walkVars, callVars, trace, catalogVars, ruleVars, cmdVars>>

RemoteRemove ==
    /\ \E id \in DOMAIN remote :
         remote' = [x \in DOMAIN remote \ {id} |-> remote[x]]
    /\ UNCHANGED <<serial, configs, walkVars, callVars, trace, catalogVars, ruleVars, cmdVars>>

(* ------------------------- mutation commands --------------------------- *)

\* state.sources: sid -> source; sid 3 was never synced, sid 4 is not in the store
LocalSids == {1, 2, 3}
LocalSources ==
    [sid \in LocalSids |-> [serviceRef |-> IF sid = 3 THEN None ELSE Some(sid)]]
SidArgs == LocalSids \cup {4}
\* the sids arguments of markAllRead
SidSets == {S \in SUBSET SidArgs : Cardinality(S) <= MaxSids}

\* db.items: the rows markAllRead queries
LocalItems ==
    {[source |-> 2, hasRead |-> FALSE, serviceRef |-> Some(1), date |-> 1],
     [source |-> 1, hasRead |-> FALSE, serviceRef |-> Some(2), date |-> 2],
     [source |-> 2, hasRead |-> FALSE, serviceRef |-> Some(3), date |-> 3],
     [source |-> 1, hasRead |-> TRUE,  serviceRef |-> Some(2), date |-> 1],
     [source |-> 3, hasRead |-> FALSE, serviceRef |-> None,    date |-> 2]}
Dates == {1, 2, 3}

\* the RSSItem arguments of the item commands, by their serviceRef: none (a local
\* item), or the id of an entry the remote once served
ItemArgs == {[serviceRef |-> None]} \cup {[serviceRef |-> Some(id)] : id \in 1..serial}

\* what a transport call comes to: fetch rejects, or the remote answers
Outcomes == {"neterr", "s204", "s500"}

\* fetchAPI: a rejected fetch is rethrown as APIError, a response is returned
FetchAPIThrows(net) == net = "neterr"

NoCall == [name |-> "none", serviceRef |-> None, sids |-> {}, date |-> None,
           before |-> FALSE]
NoCommand ==
    /\ called = NoCall
    /\ sent = <<>>
    /\ response = <<>>
    /\ raised = FALSE

EntriesPut(ids, status) ==
    [endpoint |-> "entries", ref |-> None, ids |-> ids, status |-> status]
BookmarkPut(ref) ==
    [endpoint |-> "bookmark", ref |-> ref, ids |-> {}, status |-> ""]
MarkAllAsReadPut(ref) ==
    [endpoint |-> "mark-all-as-read", ref |-> ref, ids |-> {}, status |-> ""]

\* the remote after it served request req
RemoteServe(r, req) ==
    [id \in DOMAIN r |->
        IF req.endpoint = "entries" /\ id \in req.ids
        THEN [r[id] EXCEPT !.status = req.status]
        ELSE IF req.endpoint = "bookmark" /\ req.ref = Some(id)
        THEN [r[id] EXCEPT !.starred = ~@]
        ELSE IF req.endpoint = "mark-all-as-read" /\ req.ref = Some(FeedOf(id))
        THEN [r[id] EXCEPT !.status = "read"]
        ELSE r[id]]

\* mutant: every item command checks the response status
ChecksStatusAll(name) == TRUE

\* mutant: no item command checks the response status
ChecksStatusNone(name) == FALSE

\* which item commands check the response status (line 298)
ChecksStatus(name) == name = "markRead"

\* a command is called: it resolves to undefined
CommandCalled ==
    /\ pc = "idle"
    /\ op' = "command"
    /\ returned' = None
    /\ lastIdBefore' = configs.lastId
    /\ UNCHANGED <<serial, configs, walkVars, trace, catalogVars, ruleVars>>

\* the record of the call, kept when trace is on
Recorded(c, s, r, x) ==
    IF trace
    THEN called' = c /\ sent' = s /\ response' = r /\ raised' = x
    ELSE UNCHANGED cmdVars

\* markRead, markUnread, star, unstar: guard, one request, the status check
ItemCommand(name, item, req) ==
    /\ CommandCalled
    /\ LET c == [NoCall EXCEPT !.name = name, !.serviceRef = item.serviceRef]
       IN IF item.serviceRef = None
          THEN /\ Recorded(c, <<>>, <<>>, FALSE)
               /\ UNCHANGED remote
          ELSE \E net \in Outcomes :
               /\ Recorded(c, [slot \in {0} |-> req], [slot \in {0} |-> net],
                           FetchAPIThrows(net) \/ (ChecksStatus(name) /\ net # "s204"))
               /\ remote' = IF net = "s204" THEN RemoteServe(remote, req) ELSE remote

MarkRead ==
    \E item \in ItemArgs :
        ItemCommand("markRead", item, EntriesPut({OrElse(item.serviceRef, 0)}, "read"))

MarkUnread ==
    \E item \in ItemArgs :
        ItemCommand("markUnread", item, EntriesPut({OrElse(item.serviceRef, 0)}, "unread"))

Star ==
    \E item \in ItemArgs : ItemCommand("star", item, BookmarkPut(item.serviceRef))

Unstar ==
    \E item \in ItemArgs : ItemCommand("unstar", item, BookmarkPut(item.serviceRef))

\* mutant: the date boundary is exclusive
DatedRefsExclusive(sids, date, before) ==
    {row.serviceRef[1] : row \in
        {r \in LocalItems :
            /\ r.source \in sids
            /\ r.hasRead = FALSE
            /\ r.serviceRef # None
            /\ IF before THEN r.date < date ELSE r.date > date}}

\* the serviceRefs the dated markAllRead selects from db.items: lines 334-346
DatedRefs(sids, date, before) ==
    {row.serviceRef[1] : row \in
        {r \in LocalItems :
            /\ r.source \in sids
            /\ r.hasRead = FALSE
            /\ r.serviceRef # None
            /\ IF before THEN r.date <= date ELSE r.date >= date}}

\* sources[sid]?.serviceRef
SourceRef(sid) == IF sid \in DOMAIN LocalSources THEN LocalSources[sid].serviceRef ELSE None

\* the sids the undated markAllRead sends a request for: lines 354-362
UndatedTargets(sids) == sids

MarkAllReadDated ==
    /\ CommandCalled
    /\ \E sids \in SidSets, date \in Dates, before \in BOOLEAN, net \in Outcomes :
         LET req == EntriesPut(DatedRefs(sids, date, before), "read")
         IN /\ Recorded([NoCall EXCEPT !.name = "markAllRead", !.sids = sids,
                                       !.date = Some(date), !.before = before],
                         [slot \in {0} |-> req], [slot \in {0} |-> net],
                         FetchAPIThrows(net))
            /\ remote' = IF net = "s204" THEN RemoteServe(remote, req) ELSE remote

MarkAllReadUndated ==
    /\ CommandCalled
    /\ \E sids \in SidSets :
         \E nets \in [UndatedTargets(sids) -> Outcomes] :
            LET served == {SourceRef(sid) : sid \in {x \in DOMAIN nets : nets[x] = "s204"}}
            IN /\ Recorded([NoCall EXCEPT !.name = "markAllRead", !.sids = sids],
                            [sid \in UndatedTargets(sids) |->
                                MarkAllAsReadPut(SourceRef(sid))],
                            nets,
                            \E sid \in DOMAIN nets : FetchAPIThrows(nets[sid]))
               /\ remote' = [id \in DOMAIN remote |->
                               IF Some(FeedOf(id)) \in served
                               THEN [remote[id] EXCEPT !.status = "read"]
                               ELSE remote[id]]

(* --------------------------- fetchEntries ------------------------------ *)

\* fetchEntries up to the loop: lines 93-99
FetchEntriesEnter(q, new, limit) ==
    /\ items' = <<>>
    /\ entriesResponse' = None
    /\ configs' = [configs EXCEPT !.lastId = Some(OrElse(configs.lastId, 0))]
    /\ continueId' = None
    /\ queryParams' = ParamsSet(q, "limit", limit)
    /\ fetchNew' = new
    /\ fetchLimit' = limit
    /\ requests' = 0
    /\ failed' = FALSE
    /\ pc' = "loop"

\* mutant: the after-id cursor is never set
CursorParamsNoAfter(q) ==
    IF Truthy(continueId) THEN ParamsSet(q, "before_entry_id", continueId[1]) ELSE q

\* mutant: the after-id cursor is dropped once a before-id cursor is set
CursorParamsDropAfter(q) ==
    IF Truthy(continueId)
    THEN ParamsSet(ParamsDelete(q, "after_entry_id"), "before_entry_id", continueId[1])
    ELSE IF fetchNew THEN ParamsSet(q, "after_entry_id", configs.lastId[1])
    ELSE q

\* the cursor parameters of the next request: lines 103-107
CursorParams(q) ==
    IF Truthy(continueId) THEN ParamsSet(q, "before_entry_id", continueId[1])
    ELSE IF fetchNew THEN ParamsSet(q, "after_entry_id", configs.lastId[1])
    ELSE q

\* mutant: the cursor is taken from the first entry of the page
NextContinueIdFirst(acc, page) == page[1].id

\* the cursor after a page was appended: lines 119-125
NextContinueId(acc, page) ==
    IF fetchNew THEN acc[Len(acc)].id ELSE page[Len(page)].id

\* mutant: the loop does not look at the overall cap
LoopConditionNoCap(resp, acc) ==
    /\ resp # None
    /\ resp[1].total >= fetchLimit

\* mutant: the loop never asks for a second page
LoopConditionOnePage(resp, acc) == FALSE

\* the do..while condition: lines 129-133
LoopCondition(resp, acc) ==
    /\ resp # None
    /\ resp[1].total >= fetchLimit
    /\ Len(acc) < configs.fetchLimit

\* one iteration whose request and decoding succeed
FetchPage ==
    /\ pc = "loop"
    /\ \E q \in {CursorParams(queryParams)} :
       \E resp \in {EntriesOf(q)} :
       \E acc \in {items \o resp.entries} :
          /\ queryParams' = q
          /\ requests' = requests + 1
          /\ entriesResponse' = Some(resp)
          /\ IF Len(resp.entries) = 0
             THEN /\ pc' = "done"
                  /\ UNCHANGED <<items, continueId>>
             ELSE /\ items' = acc
                  /\ continueId' = Some(NextContinueId(acc, resp.entries))
                  /\ pc' = IF LoopCondition(Some(resp), acc) THEN "loop" ELSE "done"
    /\ UNCHANGED <<remoteVars, configs, fetchNew, fetchLimit, unreadItems, failed,
                   callVars, trace, catalogVars, ruleVars, cmdVars>>

\* mutant: the catch block does not break, the loop condition decides
FetchPageFailNoBreak ==
    /\ pc = "loop"
    /\ queryParams' = CursorParams(queryParams)
    /\ failed' = ~failed
    /\ pc' = IF LoopCondition(entriesResponse, items) THEN "loop" ELSE "done"
    /\ UNCHANGED <<remoteVars, configs, fetchNew, fetchLimit, items, requests,
                   entriesResponse, continueId, unreadItems, callVars, trace, catalogVars, ruleVars, cmdVars>>

\* one iteration whose request or decoding throws: catch, break
FetchPageFail ==
    /\ pc = "loop"
    /\ queryParams' = CursorParams(queryParams)
    /\ requests' = requests + 1
    /\ failed' = TRUE
    /\ pc' = "done"
    /\ UNCHANGED <<remoteVars, configs, fetchNew, fetchLimit, items,
                   entriesResponse, continueId, unreadItems, callVars, trace, catalogVars, ruleVars, cmdVars>>

\* fetchEntries returned to a hook that returns in turn: its locals are gone
LocalsGone ==
    /\ requests' = 0
    /\ failed' = FALSE
    /\ items' = <<>>
    /\ unreadItems' = None
    /\ queryParams' = <<>>
    /\ fetchNew' = FALSE
    /\ fetchLimit' = 1
    /\ entriesResponse' = None
    /\ continueId' = None
    /\ pc' = "idle"

(* ----------------------------- fetchItems ------------------------------ *)

NoRuleLog == [entries |-> {}, thunks |-> {}, requests |-> {}]

\* sourceMap.get(item.feed.id.toString()).sid: the source whose serviceRef is the feed
SidOfFeed(feed) == CHOOSE sid \in LocalSids : LocalSources[sid].serviceRef = Some(feed)

\* the positions in the fetched list of the entries whose source has rules
RuledIndexes == {i \in 1..Len(items) : SidOfFeed(items[i].feed) \in ruled}

\* SourceRule.applyAll: what the rules may leave in hasRead and starred
RuleDecisions == [hasRead : BOOLEAN, starred : BOOLEAN]

\* lines 245-250: the command thunks the mapping creates for one entry
ThunksFor(e) ==
    (IF e.remoteRead # e.hasRead THEN {[name |-> "markRead", ref |-> e.ref]} ELSE {})
    \cup (IF e.remoteStarred # e.starred THEN {[name |-> "markUnread", ref |-> e.ref]}
          ELSE {})

\* the requests those thunks send: a thunk runs when it is dispatched, and fetchItems
\* dispatches none of them (its dispatch parameter is unused)
RuleRequests(thunks) == {}

\* lines 210-254, for the entries of sources with rules
MapItems ==
    \E dec \in [RuledIndexes -> RuleDecisions] :
       \E entries \in {{[ref |-> items[i].id,
                          remoteRead |-> items[i].status = "read",
                          remoteStarred |-> items[i].starred,
                          hasRead |-> dec[i].hasRead,
                          starred |-> dec[i].starred] : i \in RuledIndexes}} :
       \E thunks \in {UNION {ThunksFor(e) : e \in entries}} :
          ruleLog' = [entries |-> entries, thunks |-> thunks,
                      requests |-> RuleRequests(thunks)]

FetchItemsCall ==
    /\ pc = "idle"
    /\ op' = "fetchItems"
    /\ lastIdBefore' = configs.lastId
    /\ returned' = None
    /\ unreadItems' = None
    /\ \E limit \in PageSizes :
         FetchEntriesEnter([k \in {"order", "direction"} |->
                               IF k = "order" THEN "id" ELSE "desc"], TRUE, limit)
    /\ called' = NoCall /\ sent' = <<>> /\ response' = <<>> /\ raised' = FALSE
    /\ ruleLog' = NoRuleLog
    /\ UNCHANGED <<remoteVars, trace, catalogVars, ruled>>

\* mutant: the cursor is taken from the last entry of the list
FetchItemsReturnLast ==
    /\ pc = "done" /\ op = "fetchItems"
    /\ configs' = IF Len(items) = 0 THEN configs
                  ELSE [configs EXCEPT !.lastId = Some(items[Len(items)].id)]
    /\ returned' = Some([i \in 1..Len(items) |-> items[i].id])
    /\ LocalsGone
    /\ MapItems
    /\ UNCHANGED <<remoteVars, op, lastIdBefore, trace, catalogVars, ruled, cmdVars>>

\* lines 195-199 (and the return)
FetchItemsReturn ==
    /\ pc = "done" /\ op = "fetchItems"
    /\ configs' = IF Len(items) = 0 THEN configs
                  ELSE [configs EXCEPT !.lastId = Some(items[1].id)]
    /\ returned' = Some([i \in 1..Len(items) |-> items[i].id])
    /\ LocalsGone
    /\ MapItems
    /\ UNCHANGED <<remoteVars, op, lastIdBefore, trace, catalogVars, ruled, cmdVars>>

(* ------------------------------ syncItems ------------------------------ *)

SyncItemsCall ==
    /\ pc = "idle"
    /\ op' = "syncItems"
    /\ lastIdBefore' = configs.lastId
    /\ returned' = None
    /\ unreadItems' = None
    /\ \E limit \in PageSizes :
         FetchEntriesEnter([k \in {"status", "order", "direction"} |->
                               IF k = "status" THEN "unread"
                               ELSE IF k = "order" THEN "id" ELSE "desc"], FALSE, limit)
    /\ called' = NoCall /\ sent' = <<>> /\ response' = <<>> /\ raised' = FALSE
    /\ UNCHANGED <<remoteVars, trace, catalogVars, ruleVars>>

\* mutant: the before-id cursor of the unread walk is left in the query
SyncItemsStarredKeepsCursor ==
    /\ pc = "done" /\ op = "syncItems" /\ unreadItems = None
    /\ unreadItems' = Some(items)
    /\ FetchEntriesEnter(
         ParamsAppend(ParamsDelete(queryParams, "status"), "starred", "true"),
         FALSE, fetchLimit)
    /\ UNCHANGED <<remoteVars, callVars, trace, catalogVars, ruleVars, cmdVars>>

\* lines 268-273: the unread walk returned, the starred walk is called
SyncItemsStarred ==
    /\ pc = "done" /\ op = "syncItems" /\ unreadItems = None
    /\ unreadItems' = Some(items)
    /\ FetchEntriesEnter(
         ParamsAppend(ParamsDelete(ParamsDelete(queryParams, "status"),
                                   "before_entry_id"), "starred", "true"),
         FALSE, fetchLimit)
    /\ UNCHANGED <<remoteVars, callVars, trace, catalogVars, ruleVars, cmdVars>>

\* mutant: syncItems moves the cursor to the newest unread entry it saw
SyncItemsReturnAdvances ==
    /\ pc = "done" /\ op = "syncItems" /\ unreadItems # None
    /\ returned' = Some(<<{unreadItems[1][i].id : i \in 1..Len(unreadItems[1])},
                           {items[i].id : i \in 1..Len(items)}>>)
    /\ configs' = IF Len(unreadItems[1]) = 0 THEN configs
                  ELSE [configs EXCEPT !.lastId = Some(unreadItems[1][1].id)]
    /\ LocalsGone
    /\ UNCHANGED <<remoteVars, op, lastIdBefore, trace, catalogVars, ruleVars, cmdVars>>

\* lines 273-278: the starred walk returned
SyncItemsReturn ==
    /\ pc = "done" /\ op = "syncItems" /\ unreadItems # None
    /\ returned' = Some(<<{unreadItems[1][i].id : i \in 1..Len(unreadItems[1])},
                           {items[i].id : i \in 1..Len(items)}>>)
    /\ LocalsGone
    /\ UNCHANGED <<remoteVars, configs, op, lastIdBefore, trace, catalogVars, ruleVars, cmdVars>>

(* ---------------------- authenticate, updateSources -------------------- *)

\* the catalogs the remote may hold: some categories, and feeds in them
Catalogs ==
    UNION {[categories : {cs}, feeds : UNION {[fs -> cs] : fs \in SUBSET (1..MaxFeeds)}] :
              cs \in SUBSET (1..MaxCategories)}

\* what a catalog or probe call comes to: fetch rejects; the body is not JSON; the
\* body decodes to undefined; it decodes to an object carrying error_message; it
\* decodes to what was asked for
Answers == {"neterr", "undecodable", "absent", "error", "ok"}

\* the error a failed step throws: APIError from fetchAPI (and from line 163),
\* SyntaxError from response.json(), TypeError from using the decoded value
ErrorOf(call, a) ==
    IF a = "neterr" THEN "ServiceFailure"
    ELSE IF a = "undecodable" THEN "SyntaxError"
    ELSE IF a = "absent" /\ call = "feeds" THEN "ServiceFailure"
    ELSE "TypeError"

\* the frame of the three hooks below
CatalogFrame ==
    UNCHANGED <<remoteVars, configs, queryParams, fetchNew, fetchLimit, items,
                entriesResponse, continueId, unreadItems, requests, failed,
                trace, cmdVars, importGroups, catalog, ruleVars>>

\* authenticate: lines 140-143
Authenticate ==
    /\ pc = "idle"
    /\ op' = "authenticate"
    /\ lastIdBefore' = configs.lastId
    /\ \E a \in Answers :
         /\ answer' = Some(a)
         /\ IF a \in {"ok", "error"}
            THEN returned' = Some(a = "ok") /\ thrown' = None
            ELSE returned' = None /\ thrown' = Some(ErrorOf("me", a))
    /\ UNCHANGED <<pc, groups, groupsBefore>>
    /\ CatalogFrame

\* updateSources is called: lines 146-150
UpdateSourcesCall ==
    /\ pc = "idle"
    /\ op' = "updateSources"
    /\ lastIdBefore' = configs.lastId
    /\ returned' = None
    /\ thrown' = None
    /\ answer' = None
    /\ groupsBefore' = groups
    /\ pc' = IF importGroups THEN "categories" ELSE "feeds"
    /\ UNCHANGED groups
    /\ CatalogFrame

\* dispatch(createSourceGroup(title)) for every category: a group is created
\* unless one of that name exists
CreateSourceGroups(gs, titles) == gs \cup titles

\* the categories call is answered: lines 151-155
CategoriesAnswer ==
    /\ pc = "categories"
    /\ \E a \in Answers :
         /\ answer' = Some(a)
         /\ IF a = "ok"
            THEN /\ groups' = CreateSourceGroups(groups, catalog.categories)
                 /\ pc' = "feeds"
                 /\ UNCHANGED thrown
            ELSE /\ thrown' = Some(ErrorOf("categories", a))
                 /\ pc' = "idle"
                 /\ UNCHANGED groups
    /\ UNCHANGED <<op, returned, lastIdBefore, groupsBefore>>
    /\ CatalogFrame

\* the feeds call is answered: lines 159-177
FeedsAnswer ==
    /\ pc = "feeds"
    /\ \E a \in Answers :
         /\ answer' = Some(a)
         /\ IF a = "ok"
            THEN /\ returned' = Some([sources |-> DOMAIN catalog.feeds,
                                       groupsMap |-> IF importGroups
                                                     THEN Some(catalog.feeds) ELSE None])
                 /\ UNCHANGED thrown
            ELSE /\ thrown' = Some(ErrorOf("feeds", a))
                 /\ UNCHANGED returned
    /\ pc' = "idle"
    /\ UNCHANGED <<op, lastIdBefore, groups, groupsBefore>>
    /\ CatalogFrame

(* --------------------------- initial states ---------------------------- *)

\* no catalog operation was called; the remote catalog is empty
CatalogIdle ==
    /\ groups = {}
    /\ groupsBefore = {}
    /\ answer = None
    /\ thrown = None
    /\ ruleLog = NoRuleLog

WalkIdle ==
    /\ op = "none"
    /\ pc = "idle"
    /\ queryParams = <<>>
    /\ fetchNew = FALSE
    /\ fetchLimit = 1
    /\ items = <<>>
    /\ entriesResponse = None
    /\ continueId = None
    /\ unreadItems = None
    /\ requests = 0
    /\ failed = FALSE
    /\ returned = None
    /\ lastIdBefore = None
    /\ NoCommand

InitBut(caps, tr) ==
    /\ remote = <<>>
    /\ serial = 0
    /\ configs \in [lastId : {None}, fetchLimit : caps]
    /\ trace = tr
    /\ WalkIdle
    /\ importGroups = FALSE
    /\ catalog = [categories |-> {}, feeds |-> <<>>]
    /\ CatalogIdle
    /\ ruled = {}

(* ------------------------------ claims --------------------------------- *)

\* whether a sequence of entries has strictly decreasing ids
Descending(seq) == \A i \in 1..(Len(seq) - 1) : seq[i].id > seq[i + 1].id

InFetchEntries == pc \in {"loop", "done"}

\* C1: every call of fetchEntries reaches its return, whatever pages the remote
\* produces (full, short, empty or failing), for every page size, cap and mode.
C1_Terminates == (pc = "loop") ~> (pc = "done")

\* C1 witness: a walk of three or more page requests, the last one failing, returned.
C1_Witness == pc = "done" /\ requests >= 3 /\ failed

\* C2: the accumulator never holds more than the overall cap plus one page.
C2_AtMostOnePageOver == InFetchEntries => Len(items) <= configs.fetchLimit + fetchLimit

\* C2 witness: fetchEntries returns more entries than the cap.
C2_Witness == pc = "done" /\ Len(items) > configs.fetchLimit

\* C3: an incremental fetch holds, and returns, no entry whose id is at most the
\* lastId held before the call.
C3_NewerThanCursor ==
    /\ (op = "fetchItems" /\ InFetchEntries) =>
          \A i \in 1..Len(items) : items[i].id > OrElse(lastIdBefore, 0)
    /\ (op = "fetchItems" /\ returned # None) =>
          \A i \in 1..Len(returned[1]) : returned[1][i] > OrElse(lastIdBefore, 0)

\* C3 witness: a fetch of two pages from a cursor below which the remote holds entries.
C3_Witness ==
    /\ op = "fetchItems" /\ pc = "done" /\ requests >= 2 /\ Len(items) >= 2
    /\ ParamsHas(queryParams, "before_entry_id")
    /\ lastIdBefore # None /\ lastIdBefore[1] >= 1
    /\ \E id \in DOMAIN remote : id <= lastIdBefore[1]

FetchItemsReturned == op = "fetchItems" /\ pc = "idle" /\ returned # None

\* the largest id among the serviceRefs fetchItems returned
ReturnedMax == SetMax({returned[1][i] : i \in 1..Len(returned[1])})

\* C4 as stated: after a cycle with N >= 1 entries lastId is their largest id, and
\* after a cycle with no entries lastId has the value it had before the cycle.
C4_Original ==
    FetchItemsReturned =>
        IF Len(returned[1]) >= 1
        THEN configs.lastId = Some(ReturnedMax)
        ELSE configs.lastId = lastIdBefore

\* C4 amended: after a cycle with N >= 1 entries lastId is their largest id; after a
\* cycle with no entries lastId is the value it had before, an unset lastId now being 0.
C4_CursorAfterCycle ==
    FetchItemsReturned =>
        IF Len(returned[1]) >= 1
        THEN configs.lastId = Some(ReturnedMax)
        ELSE configs.lastId = Some(OrElse(lastIdBefore, 0))

\* C4 witness: a cycle returned two or more entries from a cursor that was set.
C4_Witness ==
    /\ FetchItemsReturned /\ Len(returned[1]) >= 2
    /\ lastIdBefore # None /\ lastIdBefore[1] >= 1

\* C5: no step of the engine or of the remote decreases lastId, or unsets it.
C5_CursorNeverDecreases ==
    [][/\ OrElse(configs'.lastId, 0) >= OrElse(configs.lastId, 0)
       /\ configs.lastId # None => configs'.lastId # None]_vars

\* C5 witness: a second cycle advanced the cursor after the remote removed entries.
C5_Witness ==
    /\ FetchItemsReturned
    /\ lastIdBefore # None /\ lastIdBefore[1] >= 1
    /\ configs.lastId[1] > lastIdBefore[1]
    /\ Cardinality(DOMAIN remote) < serial

\* C6: the accumulator, and so the returned list, has strictly decreasing ids.
C6_StrictlyDescending == Descending(items)

\* C6 witness: a backlog walk of two or more pages returned three or more entries.
C6_Witness == pc = "done" /\ ~fetchNew /\ requests >= 2 /\ Len(items) >= 3

\* the scenario of C7: the unread walk of syncItems returned, page size 2, cap 5,
\* six unread entries on the remote, no failing page
C7_Scenario ==
    /\ op = "syncItems" /\ unreadItems = None /\ pc = "done" /\ ~failed
    /\ fetchLimit = 2 /\ configs.fetchLimit = 5
    /\ Cardinality(Matching(ParamsDelete(ParamsDelete(queryParams, "before_entry_id"),
                                         "limit"))) = 6

\* C7 as stated: the walk stops after two full pages with 4 or 5 entries.
C7_Original == C7_Scenario => (Len(items) \in {4, 5} /\ requests = 2)

\* C7 amended: the walk fetches three full pages (2+2+2) and returns 6 entries, one
\* more than the cap; the accumulator never exceeds 6.
C7_ThreeFullPages ==
    /\ C7_Scenario => (Len(items) = 6 /\ requests = 3)
    /\ (InFetchEntries /\ fetchLimit = 2 /\ configs.fetchLimit = 5) => Len(items) <= 6

\* C7 witness: the scenario happens.
C7_Witness == C7_Scenario

ItemCommands == {"markRead", "markUnread", "star", "unstar"}

\* C8: a command sends nothing when the serviceRef it needs is absent: no request
\* for an item without serviceRef, and none for a source without serviceRef or
\* missing from the store.
C8_NoOpWithoutRef ==
    /\ (called.name \in ItemCommands /\ called.serviceRef = None) => DOMAIN sent = {}
    /\ (called.name = "markAllRead" /\ called.date = None) =>
          \A sid \in DOMAIN sent : SourceRef(sid) # None
    /\ (called.name = "markAllRead" /\ called.date # None) =>
          \A slot \in DOMAIN sent : sent[slot].endpoint = "entries"

Served == [slot \in {0} |-> "s204"]

\* C9: markRead, markUnread, star and unstar are idempotent on the remote: the
\* second of two served applications changes nothing, star leaves the entry
\* starred and unstar leaves it unstarred.
C9_Idempotent ==
    [][/\ (/\ called.name \in ItemCommands /\ called' = called
           /\ response = Served /\ response' = Served
           /\ serial' = serial /\ DOMAIN remote' = DOMAIN remote) => remote' = remote
       /\ (/\ called'.name \in {"star", "unstar"} /\ response' = Served
           /\ called' # called
           /\ called'.serviceRef[1] \in DOMAIN remote') =>
              remote'[called'.serviceRef[1]].starred = (called'.name = "star")]_vars

BestEffort == {"markUnread", "star", "unstar"}

\* C10 as stated: markUnread, star and unstar never reject.
C10_Original == called.name \in BestEffort => ~raised

\* C10 amended: markUnread, star and unstar complete normally whatever status the
\* remote answers, and reject exactly when the transport call itself fails.
C10_RaisesOnlyOnTransportFailure ==
    called.name \in BestEffort =>
        (raised <=> (\E slot \in DOMAIN response : response[slot] = "neterr"))

\* C10 witness: the remote answered markUnread with an error status.
C10_Witness ==
    called.name = "markUnread" /\ response = [slot \in {0} |-> "s500"] /\ ~raised

\* C11: markRead on an item with a serviceRef rejects exactly when the transport
\* call fails or the answer's status is not 204, so a 204 completes normally; no
\* other command rejects unless a transport call of its own failed.
C11_MarkReadStrict ==
    /\ (called.name = "markRead" /\ called.serviceRef # None) =>
          (raised <=> (FetchAPIThrows(response[0]) \/ response[0] # "s204"))
    /\ (called.name \in BestEffort \cup {"markAllRead"} /\ raised) =>
          \E slot \in DOMAIN response : FetchAPIThrows(response[slot])

\* C11 witness: the remote answered markRead with an error status and it rejected.
C11_Witness ==
    called.name = "markRead" /\ response = [slot \in {0} |-> "s500"] /\ raised

\* the serviceRefs that occur in db.items
LocalRefs == {row.serviceRef[1] : row \in {r \in LocalItems : r.serviceRef # None}}

\* C12: markAllRead with a boundary date sends exactly one request, a bulk mark-read,
\* and a serviceRef is among its entry_ids exactly when some local item carrying it
\* is unread, belongs to one of the given sources and has its date on the asked
\* side of the boundary, the boundary itself included.
C12_DatedBulkRequest ==
    (called.name = "markAllRead" /\ called.date # None) =>
        /\ DOMAIN sent = {0}
        /\ sent[0].endpoint = "entries" /\ sent[0].status = "read"
        /\ sent[0].ids \subseteq LocalRefs
        /\ \A ref \in LocalRefs :
              ref \in sent[0].ids <=>
                 \E row \in LocalItems :
                    /\ row.serviceRef = Some(ref)
                    /\ ~row.hasRead
                    /\ row.source \in called.sids
                    /\ (called.before => row.date <= called.date[1])
                    /\ (~called.before => row.date >= called.date[1])

\* C12 witness: source 2 has unread items dated 1 and 3; asked for everything up to
\* date 1, the request lists the item dated 1 (on the boundary) and not the other.
C12_Witness ==
    /\ called.name = "markAllRead" /\ called.sids = {2}
    /\ called.date = Some(1) /\ called.before
    /\ DOMAIN sent = {0} /\ sent[0].ids = {1}

\* C13: authenticate returns false, without throwing, when the decoded answer
\* carries an error indicator, true when it carries none, and throws only
\* ServiceFailure, and only when the transport call failed.
C13_AuthenticateOutcome ==
    op = "authenticate" =>
        /\ answer = Some("error") => (returned = Some(FALSE) /\ thrown = None)
        /\ answer = Some("ok") => (returned = Some(TRUE) /\ thrown = None)
        /\ thrown # None => (thrown = Some("ServiceFailure") /\ answer = Some("neterr"))

\* C14: updateSources has no partial success: when it threw, because the categories
\* call or the feeds call failed, the groups are the ones that existed when it was
\* called.
C14_NoPartialSuccess ==
    (op = "updateSources" /\ pc = "idle" /\ thrown # None) => groups = groupsBefore

\* C15: a failing page ends the walk without an error: the iteration that fails
\* leaves the accumulator as the pages before it made it and reaches the return;
\* no page request follows it in that call, and fetchItems hands on exactly the
\* accumulated entries, in order.
C15_FailureSwallowed ==
    [][/\ (pc = "loop" /\ failed') =>
             (pc' = "done" /\ items' = items /\ requests' = requests + 1)
       /\ (pc = "done" /\ failed) => (pc' # "loop" \/ requests' = 0)
       /\ (pc = "done" /\ failed /\ op = "fetchItems" /\ pc' = "idle") =>
             returned' = Some([i \in 1..Len(items) |-> items[i].id])]_vars

\* C15 witness: the second page request of a walk failed after a full first page.
C15_Witness ==
    pc = "done" /\ failed /\ requests = 2 /\ fetchLimit = 2 /\ Len(items) = 2

\* C16: when a fetchItems cycle has returned, every remote entry above the lastId
\* held before the cycle and up to the lastId held after it is among the entries
\* the cycle returned, whether the walk ended on a short page, a failing page or
\* the overall cap.
C16_AdvanceAfterFullRetrieval ==
    FetchItemsReturned =>
        \A id \in DOMAIN remote :
            (id > OrElse(lastIdBefore, 0) /\ id <= OrElse(configs.lastId, 0)) =>
                \E i \in 1..Len(returned[1]) : returned[1][i] = id

\* C17 as stated: syncItems and the mutation commands leave lastId exactly as it
\* was when they were called, an unset lastId included.
C17_Original == op \in {"syncItems", "command"} => configs.lastId = lastIdBefore

\* C17 amended: the mutation commands leave lastId exactly as it was; syncItems
\* leaves a set lastId as it was and turns an unset lastId into 0; so only
\* fetchItems moves the cursor to an entry's id.
C17_OnlyFetchItemsAdvances ==
    /\ op = "command" => configs.lastId = lastIdBefore
    /\ op = "syncItems" => configs.lastId = Some(OrElse(lastIdBefore, 0))

\* C17 witness: syncItems returned an unread entry newer than the cursor it was
\* called with.
C17_Witness ==
    /\ op = "syncItems" /\ pc = "idle" /\ returned # None
    /\ lastIdBefore # None /\ lastIdBefore[1] >= 1
    /\ \E id \in returned[1][1] : id > lastIdBefore[1]

\* C18: for every entry of a source with rules that fetchItems mapped: when the
\* rules left hasRead different from what the remote reported, the matching
\* mark-read or mark-unread request was sent for it; when they left starred
\* different, the bookmark request was sent for it; and no request was sent for
\* a flag the rules left alone.
C18_RulesPushedBack ==
    FetchItemsReturned =>
        /\ \A e \in ruleLog.entries :
              /\ e.hasRead # e.remoteRead =>
                    EntriesPut({e.ref}, IF e.hasRead THEN "read" ELSE "unread")
                        \in ruleLog.requests
              /\ e.starred # e.remoteStarred =>
                    BookmarkPut(Some(e.ref)) \in ruleLog.requests
        /\ \A req \in ruleLog.requests :
              \E e \in ruleLog.entries :
                 \/ /\ e.hasRead # e.remoteRead
                    /\ req = EntriesPut({e.ref}, IF e.hasRead THEN "read" ELSE "unread")
                 \/ /\ e.starred # e.remoteStarred
                    /\ req = BookmarkPut(Some(e.ref))

\* the entries the running walk asks for: its query without the paging parameter
Wanted == Matching(ParamsDelete(queryParams, "before_entry_id"))

\* C19: over a remote that does not change, a walk that returned without a failing
\* page, asking for fewer entries than the overall cap, holds every entry that
\* matches its query (in incremental mode: those above lastId), each exactly once.
C19_Complete ==
    (pc = "done" /\ ~failed /\ Cardinality(Wanted) < configs.fetchLimit) =>
        /\ {items[i].id : i \in 1..Len(items)} = Wanted
        /\ Len(items) = Cardinality(Wanted)

\* C19 witness: an incremental walk from a cursor above the oldest entries took
\* three or more page requests and stayed below the cap.
C19_Witness ==
    /\ pc = "done" /\ ~failed /\ fetchNew /\ requests >= 3
    /\ configs.lastId[1] >= 1
    /\ Cardinality(Wanted) >= 3 /\ Cardinality(Wanted) < configs.fetchLimit

\* the starred walk of syncItems is running or has returned
StarredWalk == op = "syncItems" /\ unreadItems # None /\ InFetchEntries

\* C20: the starred walk of syncItems owes nothing to the unread walk before it:
\* its first request carries the parameters of a starred query run alone (order,
\* direction, limit, starred), no before-id cursor and no status filter; no later
\* request of it carries a status filter or an after-id cursor; and what it
\* gathers are starred entries whatever their read state.
C20_StarredIndependent ==
    /\ (StarredWalk /\ pc = "loop" /\ requests = 0) =>
          /\ DOMAIN CursorParams(queryParams) = {"order", "direction", "limit", "starred"}
          /\ continueId = None
    /\ (StarredWalk /\ requests = 1) => ~ParamsHas(queryParams, "before_entry_id")
    /\ StarredWalk =>
          /\ ~ParamsHas(queryParams, "status")
          /\ ~ParamsHas(queryParams, "after_entry_id")
          /\ \A i \in 1..Len(items) : items[i].starred

\* C20 witness: the unread walk ended on a before-id cursor below a starred entry
\* that is read, and the starred walk returned that entry.
C20_Witness ==
    /\ StarredWalk /\ pc = "done"
    /\ fetchLimit = 1 /\ configs.fetchLimit = 2 /\ Len(unreadItems[1]) = 1
    /\ \E i \in 1..Len(items) :
          items[i].status = "read" /\ items[i].id > unreadItems[1][1].id

(* --------------------------- specifications ---------------------------- *)

\* The sync engine: fetchItems, syncItems and the mutation commands, which act
\* between the hooks' runs, against a remote that gains and loses entries.
Init == InitBut(1..MaxCap, FALSE)

Next ==
    \/ RemoteAdd(MaxId)
    \/ RemoteRemove
    \/ FetchItemsCall
    \/ FetchPage
    \/ FetchPageFail
    \/ FetchItemsReturn
    \/ SyncItemsCall
    \/ SyncItemsStarred
    \/ SyncItemsReturn
    \/ MarkRead
    \/ MarkUnread
    \/ Star
    \/ Unstar
    \/ MarkAllReadDated
    \/ MarkAllReadUndated

Spec == Init /\ [][Next]_vars


\* The mutation commands alone, their calls recorded.
InitCmd == InitBut({MaxCap}, TRUE)

NextCmd ==
    \/ RemoteAdd(MaxId)
    \/ RemoteRemove
    \/ MarkRead
    \/ MarkUnread
    \/ Star
    \/ Unstar
    \/ MarkAllReadDated
    \/ MarkAllReadUndated

SpecCmd == InitCmd /\ [][NextCmd]_vars

\* The page walks alone, against a remote that gains and loses entries.
InitWalk == InitBut(1..WalkMaxCap, FALSE)

NextWalk ==
    \/ RemoteAdd(WalkMaxId)
    \/ RemoteRemove
    \/ FetchItemsCall
    \/ FetchPage
    \/ FetchPageFail
    \/ FetchItemsReturn
    \/ SyncItemsCall
    \/ SyncItemsStarred
    \/ SyncItemsReturn

SpecWalk == InitWalk /\ [][NextWalk]_vars

\* The page walks over a fixed dataset of unread entries 1..n, from any cursor.
InitPages ==
    /\ trace = FALSE
    /\ \E n \in 0..PagesMaxId :
         /\ remote = [id \in 1..n |-> [status |-> "unread", starred |-> FALSE]]
         /\ serial = n
         /\ configs \in [lastId : {None} \cup {Some(c) : c \in 0..n},
                          fetchLimit : 1..PagesMaxCap]
    /\ WalkIdle
    /\ importGroups = FALSE
    /\ catalog = [categories |-> {}, feeds |-> <<>>]
    /\ CatalogIdle
    /\ ruled = {}

NextPages ==
    \/ FetchItemsCall
    \/ FetchPage
    \/ FetchPageFail
    \/ FetchItemsReturn
    \/ SyncItemsCall
    \/ SyncItemsStarred
    \/ SyncItemsReturn

SpecPages == InitPages /\ [][NextPages]_vars

\* authenticate and updateSources against any catalog, with and without group import.
InitCatalog ==
    /\ remote = <<>>
    /\ serial = 0
    /\ configs = [lastId |-> None, fetchLimit |-> MaxCap]
    /\ trace = FALSE
    /\ WalkIdle
    /\ importGroups \in BOOLEAN
    /\ catalog \in Catalogs
    /\ CatalogIdle
    /\ ruled = {}

NextCatalog ==
    \/ Authenticate
    \/ UpdateSourcesCall
    \/ CategoriesAnswer
    \/ FeedsAnswer

SpecCatalog == InitCatalog /\ [][NextCatalog]_vars

\* fetchItems over entries the remote reports in any read and starred state, with
\* rules on any of the sources.
InitRules ==
    /\ trace = FALSE
    /\ \E n \in 0..MaxId :
         /\ remote \in [1..n -> [status : {"unread", "read"}, starred : BOOLEAN]]
         /\ serial = n
    /\ configs \in [lastId : {None}, fetchLimit : 1..MaxCap]
    /\ WalkIdle
    /\ importGroups = FALSE
    /\ catalog = [categories |-> {}, feeds |-> <<>>]
    /\ CatalogIdle
    /\ ruled \in SUBSET {sid \in LocalSids : LocalSources[sid].serviceRef # None}

NextRules ==
    \/ FetchItemsCall
    \/ FetchPage
    \/ FetchPageFail
    \/ FetchItemsReturn

SpecRules == InitRules /\ [][NextRules]_vars

\* Every page request is answered or fails: no transport call hangs.
FairPages == SpecPages /\ WF_vars(FetchPage \/ FetchPageFail)

====
